---- MODULE Spec2Model ----
(***************************************************************************)
(* The research orchestration of LawDeepResearch: the supervisor graph     *)
(* (multi_agent_supervisor.py: supervisor, supervisor_tools) and the       *)
(* research worker graph it fans out to (research_agent.py: llm_call,      *)
(* tool_node, compress_research).                                          *)
(*                                                                         *)
(* A string is a sequence of tokens, so that concatenation and join are    *)
(* computed and not assumed.  A language-model call is a nondeterministic  *)
(* choice of its response from a small set, or a raised error.             *)
(***************************************************************************)
EXTENDS Integers, Sequences, FiniteSets, TLC

VARIABLES
    node,                   \* position of the supervisor graph run
    supervisor_messages,    \* SupervisorState: the supervisor trace
    research_iterations,    \* SupervisorState: decision turns so far
    notes,                  \* SupervisorState: compressed findings
    raw_notes,              \* SupervisorState: raw worker transcripts
    research_brief,         \* SupervisorState: the brief
    tool_messages,          \* supervisor_tools local, kept across the await
    conduct_research_calls, \* supervisor_tools local, kept across the await
    workers,                \* the researcher_agent runs of the current round
    finish_order,           \* the order in which the workers of the round ended
    input_iterations,       \* research_iterations of the input of the run
    agent_messages,         \* AgentState.messages: the conversation of the workflow
    search_run              \* a call of a search tool of utils.py and its locals

vars == <<node, supervisor_messages, research_iterations, notes, raw_notes,
          research_brief, tool_messages, conduct_research_calls, workers,
          finish_order, input_iterations, agent_messages, search_run>>

------------------------------------------------------------------------------
(* Program constants. *)

max_researcher_iterations == 6

max_concurrent_researchers == 3

END == "__end__"

(* Bounds of the model. *)

\* ConductResearch requests the supervisor's model may issue in one run.
MaxResearch == 2

\* Decision turns with tool calls the model of a worker of the supervisor may
\* make in one run.
MaxWorkerTurns == 1

\* The same for a researcher_agent run on its own.
MaxStandaloneTurns == 2

------------------------------------------------------------------------------
(* Sequences. *)

\* sep.join(strs)
RECURSIVE Join(_, _)
Join(sep, strs) ==
    IF strs = <<>> THEN <<>>
    ELSE IF Len(strs) = 1 THEN strs[1]
    ELSE strs[1] \o sep \o Join(sep, Tail(strs))

NL == <<"\n">>

------------------------------------------------------------------------------
(* Messages (langchain_core.messages). *)

NoId == <<>>

\* no call of a search tool is modelled in this run
NoSearch == [pc |-> "none"]

HumanMessage(c) ==
    [type |-> "human", content |-> c, tool_calls |-> <<>>, name |-> "",
     tool_call_id |-> NoId]

AIMessage(c, calls) ==
    [type |-> "ai", content |-> c, tool_calls |-> calls, name |-> "",
     tool_call_id |-> NoId]

ToolMessage(c, n, id) ==
    [type |-> "tool", content |-> c, tool_calls |-> <<>>, name |-> n,
     tool_call_id |-> id]

ToolCall(n, id, k, v) == [name |-> n, id |-> id, args |-> [key |-> k, val |-> v]]

IsTool(m) == m.type = "tool"

IsToolOrAI(m) == m.type \in {"tool", "ai"}

\* the channel declared without its reducer: an update replaces the value
operator_assign(old, new) == new

\* operator.add on lists, the reducer of notes and raw_notes
operator_add(old, new) == old \o new

\* add_messages, the reducer of the message channels: the new messages carry
\* fresh ids, so they are appended
add_messages(old, new) == old \o new

------------------------------------------------------------------------------
(* utils.think_tool *)

think_tool(args) == <<"Reflection recorded: ">> \o args.val

ThinkArgsValid(args) == args.key = "reflection"

------------------------------------------------------------------------------
(* multi_agent_supervisor.get_notes_from_tool_calls *)

\* only the results of ConductResearch are taken
get_notes_from_research_calls(messages) ==
    LET tools == SelectSeq(messages,
                           LAMBDA m : IsTool(m) /\ m.name = "ConductResearch")
    IN  [i \in 1..Len(tools) |-> tools[i].content]

get_notes_from_tool_calls(messages) ==
    LET tools == SelectSeq(messages, IsTool)
    IN  [i \in 1..Len(tools) |-> tools[i].content]


------------------------------------------------------------------------------
(* The supervisor's reasoning step: the responses the model may give. *)

Topic1 == <<"topic-1">>

Topic2 == <<"topic-2">>

Reflection == <<"reflect">>

Plan == <<"plan">>

Brief == <<"brief">>

\* a requested call before the response gives it an id
Think == [name |-> "think_tool", key |-> "reflection", val |-> Reflection]

Conduct(t) == [name |-> "ConductResearch", key |-> "research_topic", val |-> t]

\* a ConductResearch request whose arguments lack research_topic
ConductMalformed == [name |-> "ConductResearch", key |-> "topic", val |-> Topic1]

Complete == [name |-> "ResearchComplete", key |-> "", val |-> <<>>]

SupervisorDecisions ==
    { <<>>,
      <<Think>>,
      <<Conduct(Topic1)>>,
      <<Conduct(Topic1), Conduct(Topic2)>>,
      <<Conduct(Topic1), Think>>,
      <<Complete>>,
      <<Conduct(Topic1), Complete>>,
      <<Think, ConductMalformed>> }

IsConductResearch(tool_call) == tool_call.name = "ConductResearch"

IsThinkTool(tool_call) == tool_call.name = "think_tool"

\* the i-th call of decision turn `turn` gets the id <<turn, i>>
WithIds(turn, d) ==
    [i \in 1..Len(d) |-> ToolCall(d[i].name, <<turn, i>>, d[i].key, d[i].val)]

RECURSIVE ConductCount(_)
ConductCount(messages) ==
    IF messages = <<>> THEN 0
    ELSE Len(SelectSeq(Head(messages).tool_calls, IsConductResearch))
         + ConductCount(Tail(messages))

------------------------------------------------------------------------------
(* supervisor: one decision turn (multi_agent_supervisor.py 95-128). *)

\* the counter left as it was
supervisor_update_no_count(response) ==
    /\ supervisor_messages' = add_messages(supervisor_messages, <<response>>)
    /\ research_iterations' = research_iterations

supervisor_update(response) ==
    /\ supervisor_messages' = add_messages(supervisor_messages, <<response>>)
    /\ research_iterations' = research_iterations + 1

\* the node, for the decisions the model may give and the number of
\* ConductResearch requests a run may hold
supervisor_decides(decisions, budget) ==
    /\ node = "supervisor"
    /\ \E d \in decisions :
          /\ ConductCount(supervisor_messages)
               + Len(SelectSeq(d, IsConductResearch)) <= budget
          /\ supervisor_update(AIMessage(Plan, WithIds(research_iterations + 1, d)))
    /\ node' = "supervisor_tools"
    /\ UNCHANGED <<notes, raw_notes, research_brief, tool_messages,
                   conduct_research_calls, workers, finish_order,
                   input_iterations, agent_messages, search_run>>

supervisor == supervisor_decides(SupervisorDecisions, MaxResearch)

\* supervisor_model_with_tools.ainvoke raises: the node has no handler, the
\* error leaves the graph run
supervisor_raises ==
    /\ node = "supervisor"
    /\ node' = "raised"
    /\ UNCHANGED <<supervisor_messages, research_iterations, notes, raw_notes,
                   research_brief, tool_messages, conduct_research_calls,
                   workers, finish_order, input_iterations, agent_messages, search_run>>

------------------------------------------------------------------------------
(* supervisor_tools (multi_agent_supervisor.py 130-249). *)

most_recent_message == supervisor_messages[Len(supervisor_messages)]

\* the comparison written > instead of >=
exceeded_iterations_strict == research_iterations > max_researcher_iterations

\* the comparison written == instead of >=
exceeded_iterations_equal == research_iterations = max_researcher_iterations

\* lines 156-161: the exit criteria
exceeded_iterations == research_iterations >= max_researcher_iterations

no_tool_calls == most_recent_message.tool_calls = <<>>

research_complete ==
    \E i \in DOMAIN most_recent_message.tool_calls :
        most_recent_message.tool_calls[i].name = "ResearchComplete"

\* the ResearchComplete criterion left out
should_end_first_incomplete == exceeded_iterations \/ no_tool_calls

\* line 163
should_end_first == exceeded_iterations \/ no_tool_calls \/ research_complete

\* lines 171-179
think_tool_calls == SelectSeq(most_recent_message.tool_calls, IsThinkTool)

requested_research_calls ==
    SelectSeq(most_recent_message.tool_calls, IsConductResearch)

\* lines 182-190: the ToolMessages of the think_tool calls
think_tool_messages ==
    [i \in 1..Len(think_tool_calls) |->
        ToolMessage(think_tool(think_tool_calls[i].args),
                    think_tool_calls[i].name, think_tool_calls[i].id)]

\* think_tool.invoke raises on arguments that do not validate
think_raises ==
    \E i \in DOMAIN think_tool_calls : ~ThinkArgsValid(think_tool_calls[i].args)

\* line 198: tool_call["args"]["research_topic"] raises KeyError
coros_raise ==
    \E i \in DOMAIN requested_research_calls :
        requested_research_calls[i].args.key # "research_topic"

\* lines 196-201: the input of one researcher_agent run
NewWorker(topic) ==
    [pc |-> "llm_call",
     researcher_messages |-> <<HumanMessage(topic)>>,
     research_topic |-> topic,
     result |-> [none |-> TRUE],
     error |-> <<>>]

\* the brief read under a key the state does not have: the default is written
end_update_default_brief ==
    /\ notes' = operator_add(notes, get_notes_from_tool_calls(supervisor_messages))
    /\ research_brief' = <<>>
    /\ UNCHANGED <<supervisor_messages, raw_notes, research_iterations>>

\* lines 234-241: the update of the step that ends the run
end_update ==
    /\ notes' = operator_add(notes, get_notes_from_tool_calls(supervisor_messages))
    /\ research_brief' = research_brief
    /\ UNCHANGED <<supervisor_messages, raw_notes, research_iterations>>

\* the update of the round also adds the round's results to notes
continue_update_noting(messages, all_raw_notes) ==
    /\ supervisor_messages' = add_messages(supervisor_messages, messages)
    /\ raw_notes' = operator_add(raw_notes, all_raw_notes)
    /\ notes' = operator_add(notes, get_notes_from_tool_calls(messages))
    /\ UNCHANGED <<research_brief, research_iterations>>

\* lines 242-249: the update of the step that goes back to the supervisor
continue_update(messages, all_raw_notes) ==
    /\ supervisor_messages' = add_messages(supervisor_messages, messages)
    /\ raw_notes' = operator_add(raw_notes, all_raw_notes)
    /\ UNCHANGED <<notes, research_brief, research_iterations>>

\* the think_tool calls of the turn are executed before the run ends
supervisor_tools_exit_reflecting ==
    /\ node = "supervisor_tools"
    /\ should_end_first
    /\ node' = END
    /\ supervisor_messages' = add_messages(supervisor_messages, think_tool_messages)
    /\ notes' = operator_add(notes, get_notes_from_tool_calls(supervisor_messages))
    /\ UNCHANGED <<raw_notes, research_iterations, research_brief>>
    /\ UNCHANGED <<tool_messages, conduct_research_calls, workers,
                   finish_order, input_iterations, agent_messages, search_run>>

\* an exit criterion holds: nothing is executed
supervisor_tools_exit ==
    /\ node = "supervisor_tools"
    /\ should_end_first
    /\ node' = END
    /\ end_update
    /\ UNCHANGED <<tool_messages, conduct_research_calls, workers,
                   finish_order, input_iterations, agent_messages, search_run>>

\* the try block raises before the await (line 183 or line 198)
supervisor_tools_raises ==
    /\ node = "supervisor_tools"
    /\ ~should_end_first
    /\ think_raises \/ coros_raise
    /\ node' = END
    /\ end_update
    /\ UNCHANGED <<tool_messages, conduct_research_calls, workers,
                   finish_order, input_iterations, agent_messages, search_run>>

\* a round without ConductResearch calls
supervisor_tools_think ==
    /\ node = "supervisor_tools"
    /\ ~should_end_first
    /\ ~think_raises /\ ~coros_raise
    /\ requested_research_calls = <<>>
    /\ node' = "supervisor"
    /\ continue_update(think_tool_messages, <<>>)
    /\ UNCHANGED <<tool_messages, conduct_research_calls, workers,
                   finish_order, input_iterations, agent_messages, search_run>>

\* lines 193-206: the workers are launched and the step waits in gather
supervisor_tools_launch ==
    /\ node = "supervisor_tools"
    /\ ~should_end_first
    /\ ~think_raises /\ ~coros_raise
    /\ requested_research_calls # <<>>
    /\ node' = "gather"
    /\ tool_messages' = think_tool_messages
    /\ conduct_research_calls' = requested_research_calls
    /\ workers' = [i \in 1..Len(requested_research_calls) |->
                      NewWorker(requested_research_calls[i].args.val)]
    /\ finish_order' = <<>>
    /\ UNCHANGED <<supervisor_messages, research_iterations, notes, raw_notes,
                   research_brief, input_iterations, agent_messages, search_run>>

\* dict.get(key, default)
Get(d, key, default) == IF key \in DOMAIN d THEN d[key] ELSE default

ErrorSynthesizing == <<"Error synthesizing research report">>

\* the results collected as the workers end (asyncio.as_completed)
gather_as_completed(ws, order) == [i \in 1..Len(ws) |-> ws[order[i]].result]

\* asyncio.gather(*coros): the results in the order of the coroutines
gather(ws, order) == [i \in 1..Len(ws) |-> ws[i].result]

\* every message of the round carries the id of the first research call
research_tool_messages_one_id(tool_results, calls) ==
    [i \in 1..Len(calls) |->
        ToolMessage(Get(tool_results[i], "compressed_research", ErrorSynthesizing),
                    calls[i].name, calls[1].id)]

\* a result without compressed_research gets no message
research_tool_messages_skipping(tool_results, calls) ==
    LET with_report ==
           SelectSeq([i \in 1..Len(calls) |-> i],
               LAMBDA i : "compressed_research" \in DOMAIN tool_results[i])
    IN  [k \in 1..Len(with_report) |->
            ToolMessage(tool_results[with_report[k]].compressed_research,
                        calls[with_report[k]].name, calls[with_report[k]].id)]

\* lines 212-218
research_tool_messages(tool_results, calls) ==
    [i \in 1..Len(calls) |->
        ToolMessage(Get(tool_results[i], "compressed_research", ErrorSynthesizing),
                    calls[i].name, calls[i].id)]

\* the raw notes of the round joined into one entry
all_raw_notes_merged(tool_results) ==
    <<Join(NL, [i \in 1..Len(tool_results) |->
                   Join(NL, Get(tool_results[i], "raw_notes", <<>>))])>>

\* lines 223-226
all_raw_notes_of(tool_results) ==
    [i \in 1..Len(tool_results) |-> Join(NL, Get(tool_results[i], "raw_notes", <<>>))]

\* the await of line 206 never resumes
gather_never_returns == FALSE

AllDone == \A i \in DOMAIN workers : workers[i].pc = "done"

SomeFailed == \E i \in DOMAIN workers : workers[i].pc = "failed"

\* lines 206-226 and 242-249: every worker returned
supervisor_tools_join ==
    /\ node = "gather"
    /\ AllDone
    /\ LET tool_results == gather(workers, finish_order)
       IN  continue_update(
               tool_messages \o research_tool_messages(tool_results,
                                                       conduct_research_calls),
               all_raw_notes_of(tool_results))
    /\ node' = "supervisor"
    /\ tool_messages' = <<>>
    /\ conduct_research_calls' = <<>>
    /\ UNCHANGED <<workers, finish_order, input_iterations, agent_messages, search_run>>

\* the try block without its except clause
supervisor_tools_unhandled ==
    /\ node = "gather"
    /\ SomeFailed
    /\ node' = "raised"
    /\ UNCHANGED <<supervisor_messages, research_iterations, notes, raw_notes,
                   research_brief, tool_messages, conduct_research_calls,
                   workers, finish_order, input_iterations, agent_messages, search_run>>

\* the except clause keeps what the round had produced when it failed
supervisor_tools_except_keeping ==
    /\ node = "gather"
    /\ SomeFailed
    /\ node' = END
    /\ supervisor_messages' = add_messages(supervisor_messages, tool_messages)
    /\ notes' = operator_add(notes, get_notes_from_tool_calls(supervisor_messages'))
    /\ raw_notes' = operator_add(raw_notes,
                        all_raw_notes_of(SelectSeq(gather(workers, finish_order),
                            LAMBDA result : "raw_notes" \in DOMAIN result)))
    /\ UNCHANGED <<research_brief, research_iterations>>
    /\ UNCHANGED <<tool_messages, conduct_research_calls, workers,
                   finish_order, input_iterations, agent_messages, search_run>>

\* lines 206 and 228-241: gather raises the first error of a worker; the
\* workers still running are left running
supervisor_tools_except ==
    /\ node = "gather"
    /\ SomeFailed
    /\ node' = END
    /\ end_update
    /\ UNCHANGED <<tool_messages, conduct_research_calls, workers,
                   finish_order, input_iterations, agent_messages, search_run>>

------------------------------------------------------------------------------
(* The research worker (research_agent.py). *)

Query == <<"query">>

Thought == <<"thought">>

\* the outputs of compress_model.invoke: a text and the entries of its source
\* list. The numbering of the list is the model's own (prompts.py 243-250 asks
\* for numbers without gaps); the second output numbers its sources 1 and 3
Findings ==
    { <<"findings-A", "[1]", "[2]">>,
      <<"findings-B", "[1]", "[3]">> }

Search(q) == [name |-> "statute_search", key |-> "query", val |-> q]

\* a tool name that is not registered
Browse == [name |-> "web_browse", key |-> "url", val |-> Query]

\* line 18-19
tools_by_name ==
    {"tavily_search", "think_tool", "case_law_search", "statute_search",
     "verify_identity_assumptions"}

\* the tools that call tavily_client.search, which raises on a network error
NetworkTools == {"tavily_search", "case_law_search", "statute_search"}

\* the responses of model_with_tools.invoke: of a worker of the supervisor
WorkerResponses ==
    { <<>>,
      <<Search(Query)>>,
      <<Browse>> }

\* and of a researcher_agent run on its own
StandaloneResponses ==
    WorkerResponses \cup
    { <<Think, Search(Query)>>,
      <<Search(Query), Think>>,
      <<Search(Query), Search(Query)>>,
      <<Search(Query), Browse>> }

\* utils.statute_search when tavily_client.search answers
statute_search(args) == <<"Search results: ">> \o args.val

\* tool.invoke(tool_call["args"]) when it returns
invoke(tool_call) ==
    IF tool_call.name = "think_tool" THEN think_tool(tool_call.args)
    ELSE statute_search(tool_call.args)

\* a lookup that answers every name (tools_by_name.get with a default tool)
LookupNeverRaises(tool_call) == FALSE

\* tools_by_name[name] raises KeyError, or the tool's request may fail
MustRaise(tool_call) == tool_call.name \notin tools_by_name

MayRaise(tool_call) == MustRaise(tool_call) \/ tool_call.name \in NetworkTools

last_message(w) ==
    workers[w].researcher_messages[Len(workers[w].researcher_messages)]

ToolTurns(messages) ==
    Len(SelectSeq(messages, LAMBDA m : m.type = "ai" /\ m.tool_calls # <<>>))

AITurns(messages) == Len(SelectSeq(messages, LAMBDA m : m.type = "ai"))

\* the two branches exchanged
should_continue_inverted(message) ==
    IF message.tool_calls # <<>> THEN "compress_research" ELSE "tool_node"

\* lines 107-124
should_continue(message) ==
    IF message.tool_calls # <<>> THEN "tool_node" ELSE "compress_research"

Running(w) == workers[w].pc \in {"llm_call", "tool_node", "compress_research"}

SupervisorUnchanged ==
    UNCHANGED <<node, supervisor_messages, research_iterations, notes,
                raw_notes, research_brief, tool_messages,
                conduct_research_calls, input_iterations, agent_messages, search_run>>

\* the node raises: the error ends the worker's run
WorkerRaises(w, where) ==
    /\ workers' = [workers EXCEPT ![w].pc = "failed", ![w].error = where]
    /\ finish_order' = Append(finish_order, w)
    /\ SupervisorUnchanged

\* lines 39-54, for the responses the model may give and the number of turns
\* with tool calls a run may hold
llm_call_answers(w, responses, turns) ==
    /\ w \in DOMAIN workers
    /\ workers[w].pc = "llm_call"
    /\ \E r \in responses :
          LET messages == workers[w].researcher_messages
              response == AIMessage(Thought, WithIds(AITurns(messages) + 1, r))
          IN  /\ r # <<>> => ToolTurns(messages) < turns
              /\ workers' = [workers EXCEPT
                    ![w].researcher_messages = add_messages(@, <<response>>),
                    ![w].pc = should_continue(response)]
    /\ UNCHANGED finish_order
    /\ SupervisorUnchanged

llm_call(w) ==
    llm_call_answers(w,
        IF node = "researcher_agent" THEN StandaloneResponses ELSE WorkerResponses,
        IF node = "researcher_agent" THEN MaxStandaloneTurns ELSE MaxWorkerTurns)

llm_call_raises(w) ==
    /\ w \in DOMAIN workers
    /\ workers[w].pc = "llm_call"
    /\ WorkerRaises(w, <<"llm_call">>)

\* the observations taken in the reverse of the order of the requests
tool_outputs_reversed(tool_calls) ==
    [i \in 1..Len(tool_calls) |->
        ToolMessage(invoke(tool_calls[Len(tool_calls) + 1 - i]),
                    tool_calls[i].name, tool_calls[i].id)]

\* a request equal in name and arguments to an earlier one of the turn is
\* answered by the earlier one's result
tool_outputs_deduplicated(tool_calls) ==
    LET index == [i \in 1..Len(tool_calls) |-> i]
        first == SelectSeq(index, LAMBDA i :
                    \A j \in 1..(i - 1) :
                       \/ tool_calls[j].name # tool_calls[i].name
                       \/ tool_calls[j].args # tool_calls[i].args)
    IN  [k \in 1..Len(first) |->
            ToolMessage(invoke(tool_calls[first[k]]), tool_calls[first[k]].name,
                        tool_calls[first[k]].id)]

\* lines 71-77
tool_outputs(tool_calls) ==
    [i \in 1..Len(tool_calls) |->
        ToolMessage(invoke(tool_calls[i]), tool_calls[i].name, tool_calls[i].id)]

\* lines 56-79: every requested call returns
tool_node(w) ==
    /\ w \in DOMAIN workers
    /\ workers[w].pc = "tool_node"
    /\ LET tool_calls == last_message(w).tool_calls
       IN  /\ \A i \in DOMAIN tool_calls : ~MustRaise(tool_calls[i])
           /\ workers' = [workers EXCEPT
                 ![w].researcher_messages = add_messages(@, tool_outputs(tool_calls)),
                 ![w].pc = "llm_call"]
    /\ UNCHANGED finish_order
    /\ SupervisorUnchanged

\* lines 66-68: the k-th call raises, the calls before it returned
tool_node_raises(w) ==
    /\ w \in DOMAIN workers
    /\ workers[w].pc = "tool_node"
    /\ LET tool_calls == last_message(w).tool_calls
       IN  \E k \in DOMAIN tool_calls :
              /\ MayRaise(tool_calls[k])
              /\ \A j \in 1..(k - 1) : ~MustRaise(tool_calls[j])
              /\ WorkerRaises(w, <<"tool_node", k>>)

\* the reflections are left out of the raw notes
raw_notes_without_reflections(messages) ==
    LET kept == SelectSeq(messages,
                          LAMBDA m : IsToolOrAI(m) /\ m.name # "think_tool")
    IN  [i \in 1..Len(kept) |-> kept[i].content]

\* lines 93-98
raw_notes_of(messages) ==
    LET kept == SelectSeq(messages, IsToolOrAI)
    IN  [i \in 1..Len(kept) |-> kept[i].content]

\* lines 81-103
compress_research(w) ==
    /\ w \in DOMAIN workers
    /\ workers[w].pc = "compress_research"
    /\ \E f \in Findings :
          workers' = [workers EXCEPT
              ![w].result =
                  [compressed_research |-> f,
                   raw_notes |-> <<Join(NL, raw_notes_of(workers[w].researcher_messages))>>],
              ![w].pc = "done"]
    /\ finish_order' = Append(finish_order, w)
    /\ SupervisorUnchanged

compress_research_raises(w) ==
    /\ w \in DOMAIN workers
    /\ workers[w].pc = "compress_research"
    /\ WorkerRaises(w, <<"compress_research">>)

------------------------------------------------------------------------------
(* The run of supervisor_agent. *)

StartIterations == {0, max_researcher_iterations}

Init ==
    /\ node = "supervisor"
    /\ supervisor_messages = <<HumanMessage(Brief)>>
    /\ research_iterations \in StartIterations
    /\ input_iterations = research_iterations
    /\ notes = <<>>
    /\ raw_notes = <<>>
    /\ research_brief = Brief
    /\ tool_messages = <<>>
    /\ conduct_research_calls = <<>>
    /\ workers = <<>>
    /\ finish_order = <<>>
    /\ agent_messages = <<>>
    /\ search_run = NoSearch

Next ==
    \/ supervisor
    \/ supervisor_raises
    \/ supervisor_tools_exit
    \/ supervisor_tools_raises
    \/ supervisor_tools_think
    \/ supervisor_tools_launch
    \/ supervisor_tools_join
    \/ supervisor_tools_except
    \/ \E w \in DOMAIN workers : llm_call(w)
    \/ \E w \in DOMAIN workers : llm_call_raises(w)
    \/ \E w \in DOMAIN workers : tool_node(w)
    \/ \E w \in DOMAIN workers : tool_node_raises(w)
    \/ \E w \in DOMAIN workers : compress_research(w)
    \/ \E w \in DOMAIN workers : compress_research_raises(w)

Spec == Init /\ [][Next]_vars

\* the event loop runs a node or a worker step that is ready
SpecFair == Spec /\ WF_vars(Next)

------------------------------------------------------------------------------
(* The run of researcher_agent on its own (research_agent.py 192). *)

InitResearcher ==
    /\ node = "researcher_agent"
    /\ supervisor_messages = <<>>
    /\ research_iterations = 0
    /\ input_iterations = 0
    /\ notes = <<>>
    /\ raw_notes = <<>>
    /\ research_brief = Brief
    /\ tool_messages = <<>>
    /\ conduct_research_calls = <<>>
    /\ workers = <<NewWorker(Brief)>>
    /\ finish_order = <<>>
    /\ agent_messages = <<>>
    /\ search_run = NoSearch

NextResearcher ==
    \/ \E w \in DOMAIN workers : llm_call(w)
    \/ \E w \in DOMAIN workers : llm_call_raises(w)
    \/ \E w \in DOMAIN workers : tool_node(w)
    \/ \E w \in DOMAIN workers : tool_node_raises(w)
    \/ \E w \in DOMAIN workers : compress_research(w)
    \/ \E w \in DOMAIN workers : compress_research_raises(w)

SpecResearcher == InitResearcher /\ [][NextResearcher]_vars

------------------------------------------------------------------------------
(* A run of researcher_agent whose model keeps asking for searches. The
   budget of search calls is a text of research_agent_prompt (prompts.py
   127-130); the graph (research_agent.py 128-147) has no counter. *)

max_search_tool_calls == 5

SearchingResponses == { <<>>, <<Search(Query)>>, <<Search(Query), Think>> }

llm_call_searching(w) ==
    llm_call_answers(w, SearchingResponses, max_search_tool_calls + 1)

NextSearching ==
    \/ \E w \in DOMAIN workers : llm_call_searching(w)
    \/ \E w \in DOMAIN workers : llm_call_raises(w)
    \/ \E w \in DOMAIN workers : tool_node(w)
    \/ \E w \in DOMAIN workers : tool_node_raises(w)
    \/ \E w \in DOMAIN workers : compress_research(w)
    \/ \E w \in DOMAIN workers : compress_research_raises(w)

SpecSearching == InitResearcher /\ [][NextSearching]_vars

------------------------------------------------------------------------------
(* A run of supervisor_agent that may be cancelled while supervisor_tools
   awaits asyncio.gather (line 206). *)

\* the worker tasks are not reached by the cancellation
supervisor_tools_cancelled_detached ==
    /\ node = "gather"
    /\ node' = "cancelled"
    /\ UNCHANGED <<supervisor_messages, research_iterations, notes, raw_notes,
                   research_brief, tool_messages, conduct_research_calls,
                   workers, finish_order, input_iterations, agent_messages, search_run>>

\* line 206: the task awaiting gather is cancelled. gather cancels every
\* awaitable that has not completed; CancelledError is no Exception, so the
\* handler of line 228 does not run and the step returns no update
supervisor_tools_cancelled ==
    /\ node = "gather"
    /\ node' = "cancelled"
    /\ workers' = [i \in DOMAIN workers |->
                      IF Running(i) THEN [workers[i] EXCEPT !.pc = "cancelled"]
                      ELSE workers[i]]
    /\ UNCHANGED <<supervisor_messages, research_iterations, notes, raw_notes,
                   research_brief, tool_messages, conduct_research_calls,
                   finish_order, input_iterations, agent_messages, search_run>>

NextCancel == Next \/ supervisor_tools_cancelled

SpecCancel == Init /\ [][NextCancel]_vars

------------------------------------------------------------------------------
(* A run of supervisor_agent whose model asks for more parallel research than
   the prompt allows (max_concurrent_research_units is only a text of the
   prompt, lines 89-91 and 111-116). *)

\* one ConductResearch request more than max_concurrent_researchers
WideDecision == [i \in 1..(max_concurrent_researchers + 1) |-> Conduct(Topic1)]

WideDecisions ==
    { <<>>, <<Think>>, <<Complete>>, <<Think, ConductMalformed>>, WideDecision }

supervisor_wide == supervisor_decides(WideDecisions, Len(WideDecision))

\* the input leaves two decision turns
InitWide ==
    /\ node = "supervisor"
    /\ supervisor_messages = <<HumanMessage(Brief)>>
    /\ research_iterations = max_researcher_iterations - 2
    /\ input_iterations = research_iterations
    /\ notes = <<>>
    /\ raw_notes = <<>>
    /\ research_brief = Brief
    /\ tool_messages = <<>>
    /\ conduct_research_calls = <<>>
    /\ workers = <<>>
    /\ finish_order = <<>>
    /\ agent_messages = <<>>
    /\ search_run = NoSearch

NextWide ==
    \/ supervisor_wide
    \/ supervisor_raises
    \/ supervisor_tools_exit
    \/ supervisor_tools_raises
    \/ supervisor_tools_think
    \/ supervisor_tools_launch
    \/ supervisor_tools_join
    \/ supervisor_tools_except
    \/ \E w \in DOMAIN workers : llm_call(w)
    \/ \E w \in DOMAIN workers : llm_call_raises(w)
    \/ \E w \in DOMAIN workers : tool_node(w)
    \/ \E w \in DOMAIN workers : tool_node_raises(w)
    \/ \E w \in DOMAIN workers : compress_research(w)
    \/ \E w \in DOMAIN workers : compress_research_raises(w)

SpecWide == InitWide /\ [][NextWide]_vars

------------------------------------------------------------------------------
(* The full workflow (research_agent_full.py 68-87): clarify_with_user,
   process_documents, plan_legal_review, the supervisor graph as the node
   supervisor_subgraph, final_report_generation. node is the position in the
   nested graphs: END is the end of the supervisor graph, AgentEND the end of
   the workflow. *)

AgentEND == "agent.__end__"

UserRequest == <<"request">>

Question == <<"question">>

Verification == <<"verification">>

Report == <<"report">>

AgentUnchanged ==
    UNCHANGED <<supervisor_messages, research_iterations, notes, raw_notes,
                research_brief, tool_messages, conduct_research_calls, workers,
                finish_order, input_iterations, search_run>>

\* the question is added and the workflow goes on all the same
clarify_with_user_proceeds ==
    /\ node = "clarify_with_user"
    /\ \E need_clarification \in BOOLEAN :
          agent_messages' = add_messages(agent_messages,
              <<AIMessage(IF need_clarification THEN Question ELSE Verification,
                          <<>>)>>)
    /\ node' = "process_documents"
    /\ AgentUnchanged

\* research_agent_scope.py 74-112
clarify_with_user ==
    /\ node = "clarify_with_user"
    /\ \E need_clarification \in BOOLEAN :
          IF need_clarification
          THEN /\ node' = AgentEND
               /\ agent_messages' =
                     add_messages(agent_messages, <<AIMessage(Question, <<>>)>>)
          ELSE /\ node' = "process_documents"
               /\ agent_messages' =
                     add_messages(agent_messages, <<AIMessage(Verification, <<>>)>>)
    /\ AgentUnchanged

\* research_agent_scope.py 158-325: the update is parsed_data, or nothing
process_documents ==
    /\ node = "process_documents"
    /\ node' = "plan_legal_review"
    /\ UNCHANGED agent_messages
    /\ AgentUnchanged

\* research_agent_scope.py 330-345; the edge of line 82 enters the supervisor
\* graph at its first node
plan_legal_review ==
    /\ node = "plan_legal_review"
    /\ research_brief' = [research_brief |-> Brief]
    /\ supervisor_messages' =
          add_messages(supervisor_messages, <<HumanMessage(Brief \o <<".">>)>>)
    /\ node' = "supervisor"
    /\ UNCHANGED <<research_iterations, notes, raw_notes, tool_messages,
                   conduct_research_calls, workers, finish_order,
                   input_iterations, agent_messages, search_run>>

\* line 83: the supervisor graph has ended, the next node is entered
supervisor_subgraph_returns ==
    /\ node = END
    /\ node' = "final_report_generation"
    /\ UNCHANGED agent_messages
    /\ AgentUnchanged

\* research_agent_full.py 44-66 and the edge of line 84
final_report_generation ==
    /\ node = "final_report_generation"
    /\ LET findings == Join(NL, notes)
          final_report == Report \o findings
      IN  agent_messages' =
             add_messages(agent_messages,
                 <<HumanMessage(<<"Here is the final report: ">> \o final_report)>>)
    /\ node' = AgentEND
    /\ AgentUnchanged

\* the model call or the parser of a node of the workflow raises
agent_node_raises ==
    /\ node \in {"clarify_with_user", "process_documents", "plan_legal_review",
                 "final_report_generation"}
    /\ node' = "raised"
    /\ UNCHANGED agent_messages
    /\ AgentUnchanged

InitAgent ==
    /\ node = "clarify_with_user"
    /\ supervisor_messages = <<>>
    /\ research_iterations = 0
    /\ input_iterations = 0
    /\ notes = <<>>
    /\ raw_notes = <<>>
    /\ research_brief = <<>>
    /\ tool_messages = <<>>
    /\ conduct_research_calls = <<>>
    /\ workers = <<>>
    /\ finish_order = <<>>
    /\ agent_messages = <<HumanMessage(UserRequest)>>
    /\ search_run = NoSearch

NextAgent ==
    \/ clarify_with_user
    \/ process_documents
    \/ plan_legal_review
    \/ Next
    \/ supervisor_subgraph_returns
    \/ final_report_generation
    \/ agent_node_raises

SpecAgent == InitAgent /\ [][NextAgent]_vars

------------------------------------------------------------------------------
(* A run of supervisor_agent whose workers return results that lack keys.
   researcher_agent is compiled with output_schema=ResearcherOutputState
   (research_agent.py 129), so what researcher_agent.ainvoke returns (lines
   196-201 of multi_agent_supervisor.py) is what compress_research wrote
   under the keys of that schema. The schema is defined in state_research.py;
   supervisor_tools reads both keys with dict.get and a default (lines 214
   and 224), and here the schema may have any of the two keys. *)

OutputKeys == {"compressed_research", "raw_notes"}

\* compress_research, and the projection of its update on the output schema
compress_research_projected(w) ==
    /\ w \in DOMAIN workers
    /\ workers[w].pc = "compress_research"
    /\ \E f \in Findings, keys \in SUBSET OutputKeys :
          LET update ==
                 [compressed_research |-> f,
                  raw_notes |->
                     <<Join(NL, raw_notes_of(workers[w].researcher_messages))>>]
          IN  workers' = [workers EXCEPT
                  ![w].result = [k \in keys |-> update[k]],
                  ![w].pc = "done"]
    /\ finish_order' = Append(finish_order, w)
    /\ SupervisorUnchanged

ProjectedDecisions ==
    { <<Conduct(Topic1)>>,
      <<Conduct(Topic1), Conduct(Topic2)>>,
      <<Conduct(Topic1), Think>>,
      <<Complete>> }

supervisor_projected == supervisor_decides(ProjectedDecisions, MaxResearch)

NextProjected ==
    \/ supervisor_projected
    \/ supervisor_raises
    \/ supervisor_tools_exit
    \/ supervisor_tools_launch
    \/ supervisor_tools_join
    \/ supervisor_tools_except
    \/ \E w \in DOMAIN workers : llm_call(w)
    \/ \E w \in DOMAIN workers : llm_call_raises(w)
    \/ \E w \in DOMAIN workers : tool_node(w)
    \/ \E w \in DOMAIN workers : tool_node_raises(w)
    \/ \E w \in DOMAIN workers : compress_research_projected(w)
    \/ \E w \in DOMAIN workers : compress_research_raises(w)

SpecProjected == Init /\ [][NextProjected]_vars

------------------------------------------------------------------------------
(* The search tools of utils.py: tavily_search, statute_search and
   case_law_search, and the functions they are made of. A dict is the
   sequence of its items, in insertion order; a url and a title are sequences
   of words, raw_content is a sequence of characters. *)

summary_fallback_chars == 1000

MaxResults == 2

\* n characters, the last one unlike the others
Chars(n) == [i \in 1..n |-> IF i = n THEN "z" ELSE "x"]

\* str.lower()
Lower(word) ==
    CASE word = "LOGIN" -> "login"
      [] word = "Login" -> "login"
      [] OTHER -> word

lower(s) == [i \in DOMAIN s |-> Lower(s[i])]

\* word in s
Contains(s, word) == \E i \in DOMAIN s : s[i] = word

\* line 254
irrelevant_patterns == {"download", "login", "javascript", "error"}

\* the literal of line 261, a word looked for in the title
NoticeLiteral == "notice-literal"

\* the results tavily_client.search may return
ResultA ==
    [url |-> <<"law.go.kr/", "a">>, title |-> <<"Act">>,
     content |-> <<"snippet-a">>, raw_content |-> <<>>]

ResultA2 ==
    [url |-> <<"law.go.kr/", "a">>, title |-> <<"Act", "amended">>,
     content |-> <<"snippet-a2">>,
     raw_content |-> Chars(summary_fallback_chars + 1)]

ResultB ==
    [url |-> <<"law.go.kr/", "b">>, title |-> <<"Login">>,
     content |-> <<"snippet-b">>, raw_content |-> Chars(summary_fallback_chars)]

ResultC ==
    [url |-> <<"law.go.kr/", "LOGIN">>, title |-> <<"Portal">>,
     content |-> <<"snippet-c">>, raw_content |-> <<>>]

ResultD ==
    [url |-> <<"law.go.kr/", "d">>, title |-> <<NoticeLiteral>>,
     content |-> <<"snippet-d">>, raw_content |-> <<"r", "a", "w">>]

SearchResults == {ResultA, ResultA2, ResultB, ResultC, ResultD}

\* the responses of tavily_client.search
Responses ==
    { [results |-> r] :
        r \in UNION { [1..n -> SearchResults] : n \in 0..MaxResults } }

SingleResponses == { [results |-> <<r>>] : r \in SearchResults }

\* lists of responses, one response or two
SearchDocs ==
    { <<r>> : r \in Responses }
      \cup { <<r, s>> : r \in Responses, s \in SingleResponses }

\* the model answers with a summary
Summary == [summary |-> <<"summary">>, key_excerpts |-> <<"excerpts">>]

\* the fallback cuts a content of 1000 characters too
summarize_webpage_content_inclusive(webpage_content, raises) ==
    IF ~raises
    THEN <<"<summary>\n">> \o Summary.summary \o <<"\n</summary>\n\n">>
            \o <<"<key_excerpts>\n">> \o Summary.key_excerpts
            \o <<"\n</key_excerpts>">>
    ELSE IF Len(webpage_content) >= summary_fallback_chars
         THEN SubSeq(webpage_content, 1, summary_fallback_chars)
                 \o <<".", ".", ".">>
         ELSE webpage_content

\* lines 83-114; raises: structured_model.invoke raises
summarize_webpage_content(webpage_content, raises) ==
    IF ~raises
    THEN <<"<summary>\n">> \o Summary.summary \o <<"\n</summary>\n\n">>
            \o <<"<key_excerpts>\n">> \o Summary.key_excerpts
            \o <<"\n</key_excerpts>">>
    ELSE IF Len(webpage_content) > summary_fallback_chars
         THEN SubSeq(webpage_content, 1, summary_fallback_chars)
                 \o <<".", ".", ".">>
         ELSE webpage_content

\* lines 127-131: the loops over the responses and their results
RECURSIVE unique_results_of(_, _, _)
unique_results_of(results, unique_results, overwrite) ==
    IF results = <<>> THEN unique_results
    ELSE LET result == Head(results)
             url == result.url
             known == \E i \in DOMAIN unique_results : unique_results[i].key = url
         IN  unique_results_of(Tail(results),
                 IF ~known
                 THEN Append(unique_results, [key |-> url, value |-> result])
                 ELSE IF overwrite
                 THEN [i \in DOMAIN unique_results |->
                          IF unique_results[i].key = url
                          THEN [key |-> url, value |-> result]
                          ELSE unique_results[i]]
                 ELSE unique_results,
                 overwrite)

RECURSIVE results_of(_)
results_of(search_results) ==
    IF search_results = <<>> THEN <<>>
    ELSE Head(search_results).results \o results_of(Tail(search_results))

\* the result of a known url replaces the one kept
deduplicate_search_results_overwriting(search_results) ==
    unique_results_of(results_of(search_results), <<>>, TRUE)

\* lines 116-133
deduplicate_search_results(search_results) ==
    unique_results_of(results_of(search_results), <<>>, FALSE)

\* lines 135-159; failing: the urls whose summarization raises
process_search_results(unique_results, failing) ==
    [i \in DOMAIN unique_results |->
        LET result == unique_results[i].value
        IN  [key |-> unique_results[i].key,
             value |->
                [title |-> result.title,
                 content |->
                    IF result.raw_content = <<>> THEN result.content
                    ELSE summarize_webpage_content(result.raw_content,
                             unique_results[i].key \in failing)]]]

NoValidResults ==
    <<"No valid search results found. Please try different search queries or use a different search API.">>

Dashes == "--------------------------------------------------------------------------------"

\* lines 175-179: the blocks of the items, numbered from i
RECURSIVE source_blocks(_, _)
source_blocks(items, i) ==
    IF items = <<>> THEN <<>>
    ELSE LET url == Head(items).key
             result == Head(items).value
         IN  <<"\n\n--- SOURCE ", ToString(i), ": ">> \o result.title
                \o <<" ---\n">>
                \o <<"URL: ">> \o url \o <<"\n\n">>
                \o <<"SUMMARY:\n">> \o result.content \o <<"\n\n">>
                \o <<Dashes, "\n">>
                \o source_blocks(Tail(items), i + 1)

\* enumerate without its start argument
format_search_output_from_zero(summarized_results) ==
    IF summarized_results = <<>> THEN NoValidResults
    ELSE <<"Search results: \n\n">> \o source_blocks(summarized_results, 0)

\* lines 161-181
format_search_output(summarized_results) ==
    IF summarized_results = <<>> THEN NoValidResults
    ELSE <<"Search results: \n\n">> \o source_blocks(summarized_results, 1)

\* lines 251-264
filter_legal_search_results(results) ==
    [results |->
        SelectSeq(Get(results, "results", <<>>),
            LAMBDA result :
               /\ ~\E pattern \in irrelevant_patterns :
                     Contains(lower(result.url), pattern)
               /\ ~Contains(lower(result.title), NoticeLiteral))]

LegalTools == {"statute_search", "case_law_search"}

\* the urls whose content process_search_results has summarized
SummarizedUrls(unique_results) ==
    { unique_results[i].key :
        i \in { j \in DOMAIN unique_results :
                  unique_results[j].value.raw_content # <<>> } }

SearchUnchanged ==
    UNCHANGED <<node, supervisor_messages, research_iterations, notes,
                raw_notes, research_brief, tool_messages,
                conduct_research_calls, workers, finish_order,
                input_iterations, agent_messages>>

\* a call of deduplicate_search_results with a list of responses
deduplicate_search_results_returns ==
    /\ search_run.pc = "called"
    /\ search_run.tool = "deduplicate_search_results"
    /\ search_run' =
          [pc |-> "returned",
           tool |-> search_run.tool,
           search_results |-> search_run.search_results,
           unique_results |->
              deduplicate_search_results(search_run.search_results)]
    /\ SearchUnchanged

\* lines 185-216, once tavily_search_multiple has returned the response to
\* the one query
tavily_search_returns ==
    /\ search_run.pc = "called"
    /\ search_run.tool = "tavily_search"
    /\ LET search_results == search_run.search_results
           unique_results == deduplicate_search_results(search_results)
       IN  \E failing \in SUBSET SummarizedUrls(unique_results) :
              LET summarized_results ==
                     process_search_results(unique_results, failing)
              IN  search_run' =
                     [pc |-> "returned",
                      tool |-> search_run.tool,
                      search_results |-> search_results,
                      unique_results |-> unique_results,
                      failing |-> failing,
                      summarized_results |-> summarized_results,
                      output |-> format_search_output(summarized_results)]
    /\ SearchUnchanged

\* lines 267-293 and 295-321, once tavily_client.search has returned
legal_search_returns ==
    /\ search_run.pc = "called"
    /\ search_run.tool \in LegalTools
    /\ LET raw_results == search_run.search_results[1]
           filtered_results == filter_legal_search_results(raw_results)
           unique_results == deduplicate_search_results(<<filtered_results>>)
       IN  \E failing \in SUBSET SummarizedUrls(unique_results) :
              LET summarized_results ==
                     process_search_results(unique_results, failing)
              IN  search_run' =
                     [pc |-> "returned",
                      tool |-> search_run.tool,
                      search_results |-> search_run.search_results,
                      filtered_results |-> filtered_results,
                      unique_results |-> unique_results,
                      failing |-> failing,
                      summarized_results |-> summarized_results,
                      output |-> format_search_output(summarized_results)]
    /\ SearchUnchanged

\* tavily_client.search raises: the tool has no handler
tavily_client_raises ==
    /\ search_run.pc = "called"
    /\ search_run.tool # "deduplicate_search_results"
    /\ search_run' = [search_run EXCEPT !.pc = "raised"]
    /\ SearchUnchanged

InitTools ==
    /\ node = "tool.invoke"
    /\ supervisor_messages = <<>>
    /\ research_iterations = 0
    /\ input_iterations = 0
    /\ notes = <<>>
    /\ raw_notes = <<>>
    /\ research_brief = Brief
    /\ tool_messages = <<>>
    /\ conduct_research_calls = <<>>
    /\ workers = <<>>
    /\ finish_order = <<>>
    /\ agent_messages = <<>>
    /\ search_run \in
          { [pc |-> "called", tool |-> "deduplicate_search_results",
             search_results |-> s] : s \in SearchDocs }
            \cup
          { [pc |-> "called", tool |-> "tavily_search",
             search_results |-> <<r>>] : r \in Responses }
            \cup
          { [pc |-> "called", tool |-> t, search_results |-> <<r>>] :
              t \in LegalTools, r \in Responses }

NextTools ==
    \/ deduplicate_search_results_returns
    \/ tavily_search_returns
    \/ legal_search_returns
    \/ tavily_client_raises

SpecTools == InitTools /\ [][NextTools]_vars

------------------------------------------------------------------------------
(* What the claims read from a state. *)

LastOf(messages) == messages[Len(messages)]

\* the messages a step appends to the supervisor trace
Appended ==
    SubSeq(supervisor_messages', Len(supervisor_messages) + 1,
           Len(supervisor_messages'))

Requests(name) ==
    SelectSeq(LastOf(supervisor_messages).tool_calls,
              LAMBDA c : c.name = name)

Requests2(message, name) ==
    SelectSeq(message.tool_calls, LAMBDA c : c.name = name)

ResultsOf(messages, name) == SelectSeq(messages, LAMBDA m : m.name = name)

ToolContents(messages) ==
    LET kept == SelectSeq(messages, LAMBDA m : m.type = "tool")
    IN  [i \in 1..Len(kept) |-> kept[i].content]

\* a Dispatching round fails: before the await, or in a worker
DispatchError ==
    \/ /\ node = "supervisor_tools"
       /\ node' # node
       /\ research_iterations < max_researcher_iterations
       /\ LastOf(supervisor_messages).tool_calls # <<>>
       /\ Requests("ResearchComplete") = <<>>
       /\ \/ \E i \in DOMAIN Requests("think_tool") :
                Requests("think_tool")[i].args.key # "reflection"
          \/ \E i \in DOMAIN Requests("ConductResearch") :
                Requests("ConductResearch")[i].args.key # "research_topic"
    \/ /\ node = "gather"
       /\ node' # node
       /\ \E i \in DOMAIN workers : workers[i].pc = "failed"

ExitCriterion ==
    \/ research_iterations >= max_researcher_iterations
    \/ LastOf(supervisor_messages).tool_calls = <<>>
    \/ Requests("ResearchComplete") # <<>>

------------------------------------------------------------------------------
(* C1..C10 *)

\* C1: when a Dispatching round with N ConductResearch requests is joined,
\* exactly N research results are appended to the supervisor trace, the i-th
\* with the tool_call_id of the i-th request and the compressed findings of
\* the worker started for the i-th request, whatever the order in which the
\* workers ended.
C1_ResultsInRequestOrder ==
    [][(node = "gather" /\ node' = "supervisor") =>
        LET requests == Requests("ConductResearch")
            research == ResultsOf(Appended, "ConductResearch")
        IN  /\ Len(workers) = Len(requests)
            /\ Len(research) = Len(requests)
            /\ \A i \in DOMAIN requests :
                  /\ workers[i].research_topic = requests[i].args.val
                  /\ research[i].tool_call_id = requests[i].id
                  /\ research[i].content = workers[i].result.compressed_research
                  /\ ToolContents(supervisor_messages')
                        [Len(ToolContents(supervisor_messages')) - Len(requests) + i]
                     = workers[i].result.compressed_research
    ]_vars

\* two workers ended in the reverse of the request order with different
\* findings, and the round was joined
C1_Witness ==
    /\ node = "supervisor"
    /\ Len(workers) = 2
    /\ finish_order = <<2, 1>>
    /\ workers[1].pc = "done" /\ workers[2].pc = "done"
    /\ workers[1].result.compressed_research
          # workers[2].result.compressed_research
    /\ LastOf(supervisor_messages).type = "tool"
    /\ LastOf(supervisor_messages).content
          = workers[2].result.compressed_research

\* C2: in a round with N >= 2 workers in which a worker raised, the step that
\* leaves the round goes back to the supervisor and the trace holds one result
\* for every request of the round, that of a worker that returned being its
\* compressed findings.
C2_FailedWorkerIsolated ==
    [][(node = "gather" /\ node' # node /\ Len(workers) >= 2
           /\ \E i \in DOMAIN workers : workers[i].pc = "failed") =>
        /\ node' = "supervisor"
        /\ \A i \in DOMAIN workers :
              \E k \in DOMAIN Appended :
                 /\ Appended[k].tool_call_id = Requests("ConductResearch")[i].id
                 /\ workers[i].pc = "done" =>
                       Appended[k].content = workers[i].result.compressed_research
    ]_vars

\* C3: a step of supervisor_tools in which the Dispatching round fails ends
\* the run in END, not in an error, leaves the trace as it was and sets notes
\* to the tool results of the earlier rounds.
C3_DispatchErrorEndsRun ==
    [][DispatchError =>
        /\ node' = END
        /\ supervisor_messages' = supervisor_messages
        /\ notes' = notes \o ToolContents(SubSeq(supervisor_messages, 1,
                                                 Len(supervisor_messages) - 1))
    ]_vars

\* every worker of the first round failed and the run ended with empty notes
C3_Witness ==
    /\ node = END
    /\ Len(workers) = 2
    /\ \A i \in DOMAIN workers : workers[i].pc = "failed"
    /\ Len(supervisor_messages) = 2
    /\ notes = <<>>

\* C4: in a run started with research_iterations = 0, research_iterations
\* never exceeds max_researcher_iterations, and no worker is dispatched once
\* it has reached max_researcher_iterations.
C4_IterationsBounded ==
    input_iterations = 0 =>
        /\ research_iterations <= max_researcher_iterations
        /\ node = "gather" => research_iterations < max_researcher_iterations
        /\ research_iterations >= max_researcher_iterations =>
              \A i \in DOMAIN workers :
                 workers[i].pc \notin {"llm_call", "tool_node", "compress_research"}

\* the sixth decision turn requested research and the run ended instead
C4_Witness ==
    /\ input_iterations = 0
    /\ research_iterations = max_researcher_iterations
    /\ node = END
    /\ Requests("ConductResearch") # <<>>
    /\ Requests("ResearchComplete") = <<>>

\* C5: a decision turn that starts with research_iterations =
\* max_researcher_iterations starts no worker, and the supervisor_tools step
\* after it goes to END without starting a worker or changing the trace, notes
\* being the tool results of the rounds before the turn.
C5_NoRoundAtBudget ==
    [][/\ (node = "supervisor" /\ research_iterations = max_researcher_iterations)
            => (node' # "gather" /\ workers' = workers)
       /\ (node = "supervisor_tools" /\ node' # node
             /\ research_iterations - 1 = max_researcher_iterations)
            => /\ node' = END
               /\ workers' = workers
               /\ supervisor_messages' = supervisor_messages
               /\ raw_notes' = raw_notes
               /\ notes' = notes \o ToolContents(SubSeq(supervisor_messages, 1,
                                                  Len(supervisor_messages) - 1))
    ]_vars

\* the turn started at the budget, requested research, and the run ended
C5_Witness ==
    /\ input_iterations = max_researcher_iterations
    /\ node = END
    /\ Requests("ConductResearch") # <<>>
    /\ Requests("ResearchComplete") = <<>>
    /\ workers = <<>>

\* C6: a supervisor_tools step goes to END, executing nothing, when the budget
\* is reached, the latest turn has no tool calls or it holds ResearchComplete;
\* otherwise, unless the round fails, it executes the round and goes back to
\* the supervisor.
C6_ExitCriteriaFirst ==
    [][/\ (node = "supervisor_tools" /\ node' # node /\ ExitCriterion)
            => /\ node' = END
               /\ supervisor_messages' = supervisor_messages
               /\ raw_notes' = raw_notes
               /\ workers' = workers
       /\ (node = "supervisor_tools" /\ node' # node /\ ~ExitCriterion
             /\ ~DispatchError)
            => /\ node' \in {"supervisor", "gather"}
               /\ node' = "gather" <=> Requests("ConductResearch") # <<>>
               /\ node' = "supervisor" =>
                     Len(Appended) = Len(Requests("think_tool"))
       /\ (node = "gather" /\ node' # node /\ ~DispatchError)
            => /\ node' = "supervisor"
               /\ Len(Appended) = Len(Requests("think_tool"))
                                    + Len(Requests("ConductResearch"))
    ]_vars

\* a turn below the budget asked for research and for completion: the run
\* ended and no worker ran
C6_Witness ==
    /\ node = END
    /\ research_iterations < max_researcher_iterations
    /\ Requests("ResearchComplete") # <<>>
    /\ Requests("ConductResearch") # <<>>
    /\ workers = <<>>

\* C7: when a call of a registered tool raises in tool_node, the step still
\* goes back to llm_call and appends one ToolMessage for every request of the
\* turn, tagged with the request's id.
C7_ToolErrorBecomesObservation ==
    [][\A w \in DOMAIN workers :
        LET calls == last_message(w).tool_calls
            before == workers[w].researcher_messages
            after == workers'[w].researcher_messages
        IN  (workers[w].pc = "tool_node" /\ workers'[w].pc # "tool_node"
               /\ \A i \in DOMAIN calls : calls[i].name \in tools_by_name)
            => /\ workers'[w].pc = "llm_call"
               /\ Len(after) = Len(before) + Len(calls)
               /\ \A i \in DOMAIN calls :
                     /\ after[Len(before) + i].type = "tool"
                     /\ after[Len(before) + i].tool_call_id = calls[i].id
    ]_vars

\* C8: the notes of a run that has reached END are not empty.
C8_NotesNeverEmpty == node = END => notes # <<>>

\* C9: no error leaves the run of the supervisor graph.
C9_NoErrorPropagates == node # "raised"

\* C10: research_iterations grows by exactly 1 in every step that appends a
\* decision turn to the supervisor trace, every completed supervisor step is
\* such a step, and no other step changes it.
C10_OneIterationPerTurn ==
    [][LET decided == /\ Len(supervisor_messages') = Len(supervisor_messages) + 1
                      /\ LastOf(supervisor_messages').type = "ai"
       IN  /\ (node = "supervisor" /\ node' = "supervisor_tools") => decided
           /\ decided => research_iterations' = research_iterations + 1
           /\ ~decided => research_iterations' = research_iterations
    ]_vars

\* two decision turns that requested only think_tool were counted
C10_Witness ==
    /\ node = "supervisor_tools"
    /\ research_iterations = input_iterations + 2
    /\ Len(supervisor_messages) = 4
    /\ \A k \in {2, 4} :
          /\ supervisor_messages[k].type = "ai"
          /\ Len(supervisor_messages[k].tool_calls) = 1
          /\ supervisor_messages[k].tool_calls[1].name = "think_tool"

------------------------------------------------------------------------------
(* C11..C20 *)

IsPrefix(s, t) == Len(s) <= Len(t) /\ SubSeq(t, 1, Len(s)) = s

\* C11: in every step of a supervisor run the old value of notes is a prefix
\* of the new one, and the old value of raw_notes is a prefix of the new one.
C11_AppendOnly ==
    [][IsPrefix(notes, notes') /\ IsPrefix(raw_notes, raw_notes')]_vars

\* two rounds of one worker each added to raw_notes, then the run ended and
\* wrote notes
C11_Witness ==
    /\ node = END
    /\ Len(supervisor_messages) >= 5
    /\ Len(Requests2(supervisor_messages[2], "ConductResearch")) = 1
    /\ Len(Requests2(supervisor_messages[4], "ConductResearch")) = 1
    /\ Len(raw_notes) = 2
    /\ Len(notes) = 2

\* C12: every entry of notes is the compressed findings of a worker or the
\* placeholder written for a worker without findings; the text recorded for a
\* think_tool reflection is never an entry of notes.
C12_NotesAreFindings ==
    \A i \in DOMAIN notes :
       /\ notes[i] \in Findings \cup {ErrorSynthesizing}
       /\ notes[i] # think_tool([key |-> "reflection", val |-> Reflection])

\* the strings of parts occur in text one after the other, from position from
RECURSIVE OccurInOrder(_, _, _)
OccurInOrder(parts, text, from) ==
    IF parts = <<>> THEN TRUE
    ELSE \E p \in from..(Len(text) - Len(Head(parts)) + 1) :
            /\ SubSeq(text, p, p + Len(Head(parts)) - 1) = Head(parts)
            /\ OccurInOrder(Tail(parts), text, p + Len(Head(parts)))

\* C13: the raw notes of a worker that reached done are one string in which
\* the content of every tool message of its transcript, that of think_tool
\* included, occurs verbatim, in the order of the transcript.
C13_RawNotesHoldEveryToolResult ==
    \A w \in DOMAIN workers :
       workers[w].pc = "done" =>
          /\ Len(workers[w].result.raw_notes) = 1
          /\ OccurInOrder(ToolContents(workers[w].researcher_messages),
                          workers[w].result.raw_notes[1], 1)

\* a worker reached done after a turn with a search and a reflection
C13_Witness ==
    \E w \in DOMAIN workers :
       /\ workers[w].pc = "done"
       /\ LET tools == SelectSeq(workers[w].researcher_messages, IsTool)
          IN  /\ Len(tools) >= 2
              /\ \E i, j \in DOMAIN tools :
                    /\ i < j
                    /\ tools[i].name = "statute_search"
                    /\ tools[j].name = "think_tool"

\* the calls requested in a transcript, in order
RECURSIVE RequestedCalls(_)
RequestedCalls(messages) ==
    IF messages = <<>> THEN <<>>
    ELSE Head(messages).tool_calls \o RequestedCalls(Tail(messages))

\* C14: once the calls a worker requested have been executed, its transcript
\* holds one tool message per requested call, in the order of the requests,
\* the i-th with the id of the i-th request, and no two tool messages share
\* an id; two requests with the same tool and arguments give two messages.
C14_OneResultPerRequest ==
    \A w \in DOMAIN workers :
       workers[w].pc \in {"llm_call", "compress_research", "done"} =>
          LET calls == RequestedCalls(workers[w].researcher_messages)
              tools == SelectSeq(workers[w].researcher_messages, IsTool)
          IN  /\ Len(tools) = Len(calls)
              /\ \A i \in DOMAIN tools :
                    /\ tools[i].tool_call_id = calls[i].id
                    /\ tools[i].name = calls[i].name
              /\ \A i, j \in DOMAIN tools :
                    i # j => tools[i].tool_call_id # tools[j].tool_call_id

\* the same search was requested twice in one turn and once more in the next
\* turn: three equal results with three ids
C14_Witness ==
    \E w \in DOMAIN workers :
       /\ workers[w].pc = "done"
       /\ LET tools == SelectSeq(workers[w].researcher_messages, IsTool)
          IN  /\ Len(tools) = 3
              /\ \A i, j \in DOMAIN tools :
                    /\ tools[i].content = tools[j].content
                    /\ tools[i].name = tools[j].name
                    /\ i # j => tools[i].tool_call_id # tools[j].tool_call_id

\* C15: a Dispatching round starts at most max_concurrent_researchers
\* workers, whatever number of ConductResearch requests the turn holds.
C15_AtMostMaxConcurrent ==
    node = "gather" => Len(workers) <= max_concurrent_researchers

\* C16: whenever supervisor_tools has left a Dispatching round, to the
\* supervisor or to the end, no worker of the round is still running, also
\* when a sibling worker failed.
C16_NoWorkerRunsAfterJoin ==
    node \in {"supervisor", "supervisor_tools", "raised", END} =>
       \A w \in DOMAIN workers : ~Running(w)

C18_LlmFailureDefaults ==
    [][\A w \in DOMAIN workers :
          (w \in DOMAIN workers' /\ workers[w].pc = "llm_call"
             /\ workers'[w].pc # "llm_call")
          => workers'[w].pc \in {"compress_research", "tool_node"}
    ]_vars

\* C19: a tool_node step of a worker whose turn requests a tool name that is
\* not in tools_by_name ends the worker's run with the error of tool_node and
\* leaves the transcript as it was; a run that ended with an error takes no
\* further step.
C19_UnknownToolIsFatal ==
    [][\A w \in DOMAIN workers :
          w \in DOMAIN workers' =>
             /\ (/\ workers[w].pc = "tool_node"
                 /\ \E k \in DOMAIN last_message(w).tool_calls :
                       last_message(w).tool_calls[k].name \notin tools_by_name
                 /\ workers'[w] # workers[w])
                => /\ workers'[w].pc = "failed"
                   /\ workers'[w].error # <<>>
                   /\ workers'[w].error[1] = "tool_node"
                   /\ workers'[w].researcher_messages
                         = workers[w].researcher_messages
             /\ workers[w].pc = "failed" => workers'[w] = workers[w]
    ]_vars

\* a turn asked for a search and then for an unregistered tool: the run ended
\* at the second call and the transcript holds no tool message
C19_Witness ==
    \E w \in DOMAIN workers :
       /\ workers[w].pc = "failed"
       /\ workers[w].error = <<"tool_node", 2>>
       /\ last_message(w).type = "ai"
       /\ Len(last_message(w).tool_calls) = 2
       /\ last_message(w).tool_calls[1].name \in tools_by_name
       /\ last_message(w).tool_calls[2].name \notin tools_by_name
       /\ SelectSeq(workers[w].researcher_messages, IsTool) = <<>>

\* the numbers a source list can carry
SourceNumbers == <<"[1]", "[2]", "[3]">>

\* the citation numbers of the source list of a text, in the order written
CitationNumbers(text) ==
    LET cited == SelectSeq(text, LAMBDA t :
                              \E n \in DOMAIN SourceNumbers : SourceNumbers[n] = t)
    IN  [i \in 1..Len(cited) |->
            CHOOSE n \in DOMAIN SourceNumbers : SourceNumbers[n] = cited[i]]

\* C20: the citation numbers of the source list in the compressed findings of
\* a worker that reached done are 1..k in order, k the number of its sources.
C20_CitationsContiguous ==
    \A w \in DOMAIN workers :
       workers[w].pc = "done" =>
          LET cited == CitationNumbers(workers[w].result.compressed_research)
          IN  cited = [i \in 1..Len(cited) |-> i]

------------------------------------------------------------------------------
(* C21..C30 *)

\* C21: in every worker run the number of search calls executed is at most
\* the budget of search calls per worker.
C21_ToolCallsWithinBudget ==
    \A w \in DOMAIN workers :
       Len(SelectSeq(workers[w].researcher_messages,
                     LAMBDA m : m.type = "tool" /\ m.name = "statute_search"))
          <= max_search_tool_calls

\* C22: a supervisor run holds at most max_researcher_iterations decision
\* turns and, every ready step being run, it ends: it reaches END, unless the
\* reasoning step of the supervisor raised.
C22_RunEnds ==
    /\ [](AITurns(supervisor_messages) <= max_researcher_iterations)
    /\ <>(node = END \/ node = "raised")

\* a run that started at 0 ended at the budget after six decision turns, with
\* the notes of its research
C22_Witness ==
    /\ node = END
    /\ input_iterations = 0
    /\ research_iterations = max_researcher_iterations
    /\ AITurns(supervisor_messages) = max_researcher_iterations
    /\ Requests("ResearchComplete") = <<>>
    /\ LastOf(supervisor_messages).tool_calls # <<>>
    /\ Len(notes) >= 2

\* C23: a step of a worker changes neither the supervisor trace, notes,
\* raw_notes and research_iterations nor another worker; and notes and
\* raw_notes are changed only by a step of supervisor_tools taken when no
\* worker of the round is still running.
C23_OnlyJoinedStepWrites ==
    [][/\ node' = node =>
             /\ UNCHANGED <<supervisor_messages, notes, raw_notes,
                            research_iterations>>
             /\ \A v, w \in DOMAIN workers :
                   (v # w /\ workers'[v] # workers[v]) => workers'[w] = workers[w]
       /\ (notes' # notes \/ raw_notes' # raw_notes) =>
             /\ node \in {"supervisor_tools", "gather"}
             /\ \A w \in DOMAIN workers :
                   workers[w].pc \notin {"llm_call", "tool_node", "compress_research"}
    ]_vars

\* C24: for the steps of a worker whose node returns: after llm_call the
\* worker is in tool_node iff the message just appended has a tool call, and
\* in compress_research otherwise; after tool_node it is in llm_call;
\* compress_research is entered only from an llm_call turn without tool calls
\* and is left only to done; a worker that is done takes no further step, so
\* compress_research runs once.
C24_WorkerStateMachine ==
    [][\A w \in DOMAIN workers :
          (w \in DOMAIN workers' /\ workers'[w] # workers[w]
             /\ workers[w].research_topic = workers'[w].research_topic
             /\ workers'[w].pc # "failed")
          => LET before == workers[w].pc
                 after == workers'[w].pc
                 latest == workers'[w].researcher_messages
                              [Len(workers'[w].researcher_messages)]
             IN  /\ before = "llm_call" =>
                       /\ latest.type = "ai"
                       /\ after = "tool_node" <=> latest.tool_calls # <<>>
                       /\ after = "compress_research" <=> latest.tool_calls = <<>>
                       /\ after \in {"tool_node", "compress_research"}
                 /\ before = "tool_node" => after = "llm_call"
                 /\ before = "compress_research" => after = "done"
                 /\ after = "compress_research" =>
                       before = "llm_call" /\ latest.tool_calls = <<>>
                 /\ before \notin {"done", "failed"}
    ]_vars

\* a worker went twice through tool_node and then, after a turn without tool
\* calls, through compress_research to done
C24_Witness ==
    \E w \in DOMAIN workers :
       /\ workers[w].pc = "done"
       /\ ToolTurns(workers[w].researcher_messages) = 2
       /\ last_message(w).type = "ai"
       /\ last_message(w).tool_calls = <<>>
       /\ "compressed_research" \in DOMAIN workers[w].result

\* C25: a tool_node step that returns, for a turn with k requests, appends
\* exactly k tool messages to the transcript and changes nothing before them;
\* the i-th carries the id and the name of the i-th request and the
\* observation of the tool for the arguments of the i-th request.
C25_ResultsMatchRequests ==
    [][\A w \in DOMAIN workers :
          (w \in DOMAIN workers' /\ workers[w].pc = "tool_node"
             /\ workers'[w].pc = "llm_call")
          => LET calls == last_message(w).tool_calls
                 before == workers[w].researcher_messages
                 after == workers'[w].researcher_messages
             IN  /\ Len(after) = Len(before) + Len(calls)
                 /\ SubSeq(after, 1, Len(before)) = before
                 /\ \A i \in DOMAIN calls :
                       /\ after[Len(before) + i].type = "tool"
                       /\ after[Len(before) + i].tool_call_id = calls[i].id
                       /\ after[Len(before) + i].name = calls[i].name
                       /\ after[Len(before) + i].content = invoke(calls[i])
    ]_vars

\* a turn asked for a reflection and a search: the step appended the
\* reflection's result and then the search's, each with its request's id
C25_Witness ==
    \E w \in DOMAIN workers :
       LET messages == workers[w].researcher_messages
           n == Len(messages)
       IN  /\ workers[w].pc = "llm_call"
           /\ n >= 4
           /\ messages[n - 2].type = "ai"
           /\ Len(messages[n - 2].tool_calls) = 2
           /\ messages[n - 1].name = "think_tool"
           /\ messages[n].name = "statute_search"
           /\ messages[n - 1].content # messages[n].content
           /\ messages[n - 1].tool_call_id = messages[n - 2].tool_calls[1].id
           /\ messages[n].tool_call_id = messages[n - 2].tool_calls[2].id

\* C26: the step that joins a round of N workers appends exactly N entries to
\* raw_notes, the i-th being the raw notes returned by the worker of the i-th
\* ConductResearch request, joined by newlines; a supervisor_tools step that
\* goes back to the supervisor without having run a worker leaves raw_notes
\* as it was.
C26_RawNotesPerWorker ==
    [][/\ (node = "gather" /\ node' = "supervisor") =>
             /\ Len(workers) = Len(Requests("ConductResearch"))
             /\ Len(workers) >= 1
             /\ raw_notes' =
                   raw_notes \o [i \in 1..Len(workers) |->
                                    Join(NL, workers[i].result.raw_notes)]
       /\ (node = "supervisor_tools" /\ node' = "supervisor") =>
             /\ Requests("ConductResearch") = <<>>
             /\ raw_notes' = raw_notes
    ]_vars

\* a round of two workers with different transcripts was joined after the
\* second worker had ended first
C26_Witness ==
    /\ node = "supervisor"
    /\ Len(workers) = 2
    /\ finish_order = <<2, 1>>
    /\ Len(raw_notes) = 2
    /\ raw_notes[1] # raw_notes[2]
    /\ raw_notes[1] = Join(NL, workers[1].result.raw_notes)
    /\ raw_notes[2] = Join(NL, workers[2].result.raw_notes)

\* C27: a supervisor_tools step that goes back to the supervisor leaves notes,
\* research_brief and research_iterations as they were; the step that ends the
\* run leaves the supervisor trace, raw_notes and research_iterations as they
\* were; and no other step changes notes.
C27_NotesWrittenAtEnd ==
    [][/\ (node \in {"supervisor_tools", "gather"} /\ node' = "supervisor") =>
             UNCHANGED <<notes, research_brief, research_iterations>>
       /\ (node \in {"supervisor_tools", "gather"} /\ node' = END) =>
             UNCHANGED <<supervisor_messages, raw_notes, research_iterations>>
       /\ notes' # notes =>
             node \in {"supervisor_tools", "gather"} /\ node' = END
    ]_vars

\* after a round of reflection and a round of research and reflection the run
\* ended on ResearchComplete: notes was written then, raw_notes before
C27_Witness ==
    /\ node = END
    /\ Requests("ResearchComplete") # <<>>
    /\ Len(notes) = 3
    /\ Len(raw_notes) = 1
    /\ research_iterations = 3

C29_WorkflowOrder ==
    [][/\ (node = "clarify_with_user" /\ node' # node) =>
             node' \in {AgentEND, "process_documents", "raised"}
       /\ (node = "clarify_with_user"
             /\ Len(agent_messages') = Len(agent_messages) + 1
             /\ agent_messages'[Len(agent_messages')].content = Question) =>
             /\ node' = AgentEND
             /\ supervisor_messages' = <<>>
             /\ research_iterations' = 0
             /\ workers' = <<>>
             /\ notes' = <<>>
       /\ (node = "process_documents" /\ node' # node) =>
             node' \in {"plan_legal_review", "raised"}
       /\ (node = "plan_legal_review" /\ node' # node) =>
             node' \in {"supervisor", "raised"}
       /\ (node' = "supervisor" /\ node' # node) =>
             node \in {"plan_legal_review", "supervisor_tools", "gather"}
       /\ (node = END /\ node' # node) => node' = "final_report_generation"
       /\ (node' = "final_report_generation" /\ node' # node) => node = END
       /\ (node = "final_report_generation" /\ node' # node) =>
             node' \in {AgentEND, "raised"}
       /\ (node' = AgentEND /\ node' # node) =>
             node \in {"clarify_with_user", "final_report_generation"}
       /\ node = AgentEND =>
             UNCHANGED <<node, agent_messages, supervisor_messages,
                         research_iterations, notes, raw_notes>>
    ]_vars

\* the workflow ended with the report written after a supervisor run that
\* gathered notes
C29_Witness ==
    /\ node = AgentEND
    /\ Len(agent_messages) = 3
    /\ agent_messages[2].content = Verification
    /\ agent_messages[3].content[1] = "Here is the final report: "
    /\ research_iterations >= 2
    /\ notes # <<>>

\* C30: no step of the supervisor, of supervisor_tools or of a worker changes
\* research_brief: the step that ends the run writes the value it read.
C30_BriefImmutable ==
    [][research_brief' = research_brief /\ research_brief' = Brief]_vars

\* the run was ended by the error handler after a worker had failed, and the
\* brief is the one the run started with
C30_Witness ==
    /\ node = END
    /\ \E w \in DOMAIN workers : workers[w].pc = "failed"
    /\ notes # <<>>
    /\ research_brief = supervisor_messages[1].content
    /\ research_brief # <<>>

------------------------------------------------------------------------------
(* C31..C39 *)

\* a call of utils.py has returned
Returned == search_run.pc = "returned"

\* a search tool has returned its output
Searched ==
    Returned /\ search_run.tool \in LegalTools \cup {"tavily_search"}

\* the results a returned search tool handed to deduplicate_search_results,
\* in the order of the responses
DedupInput ==
    IF search_run.tool \in LegalTools
    THEN search_run.filtered_results.results
    ELSE results_of(search_run.search_results)

\* the first place of a url among results
FirstAt(results, url) ==
    CHOOSE i \in DOMAIN results :
        /\ results[i].url = url
        /\ \A k \in 1..(i - 1) : results[k].url # url

\* C31: the deduplicated results of a search have every url of the input as
\* a key and no key twice, hold under a url its first result in input order,
\* are ordered by first occurrence, and are unchanged by a second
\* deduplication.
C31_FirstOccurrencePerUrl ==
    Returned =>
        LET input == DedupInput
            unique_results == search_run.unique_results
        IN  /\ \A i \in DOMAIN input :
                  \E j \in DOMAIN unique_results :
                      unique_results[j].key = input[i].url
            /\ \A j, k \in DOMAIN unique_results :
                  unique_results[j].key = unique_results[k].key => j = k
            /\ \A j \in DOMAIN unique_results :
                  /\ \E i \in DOMAIN input : input[i].url = unique_results[j].key
                  /\ unique_results[j].value =
                        input[FirstAt(input, unique_results[j].key)]
            /\ \A j, k \in DOMAIN unique_results :
                  j < k => FirstAt(input, unique_results[j].key)
                             < FirstAt(input, unique_results[k].key)
            /\ deduplicate_search_results(
                   <<[results |->
                        [j \in DOMAIN unique_results |->
                            unique_results[j].value]]>>) = unique_results

\* two responses repeat a url with another result; the first one is kept
C31_Witness ==
    /\ Returned
    /\ search_run.tool = "deduplicate_search_results"
    /\ search_run.search_results =
          <<[results |-> <<ResultA, ResultB>>], [results |-> <<ResultA2>>]>>
    /\ Len(search_run.unique_results) = 2
    /\ search_run.unique_results[1].value = ResultA

\* the places of a word in a text, in order
PlacesOf(text, word) == { i \in DOMAIN text : text[i] = word }

RankIn(places, i) == Cardinality({ j \in places : j <= i })

\* C32: the output of a search with n results has n source headers, the i-th
\* numbered i, and n URL lines, the i-th holding the url of the i-th
\* deduplicated result; with no results it is the fixed message, which no
\* output with results is.
C32_SourcesNumbered ==
    Searched =>
        LET unique_results == search_run.unique_results
            output == search_run.output
            n == Len(unique_results)
            headers == PlacesOf(output, "\n\n--- SOURCE ")
            urls == PlacesOf(output, "URL: ")
        IN  /\ n = 0 <=> output = NoValidResults
            /\ n > 0 =>
                  /\ Cardinality(headers) = n
                  /\ \A i \in headers :
                        output[i + 1] = ToString(RankIn(headers, i))
                  /\ Cardinality(urls) = n
                  /\ \A i \in urls :
                        LET url == unique_results[RankIn(urls, i)].key
                        IN  SubSeq(output, i + 1, i + Len(url)) = url

\* a search with two sources, numbered 1 and 2
C32_Witness ==
    /\ Searched
    /\ Len(search_run.unique_results) = 2
    /\ PlacesOf(search_run.output, ToString(1)) # {}
    /\ PlacesOf(search_run.output, ToString(2)) # {}

\* a pattern occurs in a url or a title, in whatever case
Irrelevant(text) ==
    \E i \in DOMAIN text :
        text[i] \in irrelevant_patterns \cup {"LOGIN", "Login"}

\* C33: the filtered results of a legal search are the results of the
\* response, in their order, without those in whose url or title one of the
\* irrelevant patterns occurs.
C33_DropsIrrelevant ==
    Searched /\ search_run.tool \in LegalTools =>
        search_run.filtered_results.results =
            SelectSeq(search_run.search_results[1].results,
                LAMBDA result :
                    ~Irrelevant(result.url) /\ ~Irrelevant(result.title))

\* C34: a search returns also when summarizations fail, and the content of a
\* result whose summarization failed is its raw content if that has at most
\* 1000 characters, and otherwise the first 1000 characters of it followed
\* by three dots.
C34_FallbackTruncates ==
    Searched =>
        \A i \in DOMAIN search_run.unique_results :
            LET raw_content == search_run.unique_results[i].value.raw_content
                content == search_run.summarized_results[i].value.content
            IN  search_run.unique_results[i].key \in search_run.failing =>
                   content =
                      IF Len(raw_content) <= summary_fallback_chars
                      THEN raw_content
                      ELSE SubSeq(raw_content, 1, summary_fallback_chars)
                              \o <<".", ".", ".">>

\* the summarizations of a page of 1001 characters and of a page of 1000
\* characters failed: the first is cut, the second is whole
C34_Witness ==
    /\ Searched
    /\ search_run.search_results = <<[results |-> <<ResultA2, ResultB>>]>>
    /\ search_run.failing = {ResultA2.url, ResultB.url}
    /\ Len(search_run.summarized_results[1].value.content)
          = summary_fallback_chars + 3
    /\ search_run.summarized_results[2].value.content = ResultB.raw_content

\* the tool messages of a sequence of messages that carry an id
Answers(messages, id) ==
    SelectSeq(messages, LAMBDA m : m.type = "tool" /\ m.tool_call_id = id)

\* C35: when a run has ended on an exit criterion, the trace ends with the
\* decision turn and holds no tool message for any request of that turn, no
\* round is under way (no tool messages or research calls of a round are
\* held) and the only workers are those of earlier rounds, which are done.
C35_RequestsOfLastTurnDropped ==
    node = END /\ ExitCriterion =>
        LET last == LastOf(supervisor_messages)
        IN  /\ last.type = "ai"
            /\ \A i \in DOMAIN last.tool_calls :
                  Answers(supervisor_messages, last.tool_calls[i].id) = <<>>
            /\ tool_messages = <<>>
            /\ conduct_research_calls = <<>>
            /\ \A w \in DOMAIN workers : workers[w].pc = "done"

\* after a round with a worker, a turn asked for research and for completion:
\* the run ended, the worker of the earlier round is the only one
C35_Witness ==
    /\ node = END
    /\ research_iterations < max_researcher_iterations
    /\ Requests("ResearchComplete") # <<>>
    /\ Requests("ConductResearch") # <<>>
    /\ Len(workers) = 1
    /\ workers[1].pc = "done"
    /\ Answers(supervisor_messages, Requests("ConductResearch")[1].id) = <<>>

\* C36: when a run has ended on an error of a round, the trace ends with the
\* decision turn of that round and holds no tool message for any request of
\* it, raw_notes has one entry for each ConductResearch result of the trace,
\* and notes are the contents of the tool messages of the trace: nothing of
\* the failed round is in any of them.
C36_FailedRoundDiscarded ==
    node = END /\ ~ExitCriterion =>
        LET last == LastOf(supervisor_messages)
        IN  /\ last.type = "ai"
            /\ \A i \in DOMAIN last.tool_calls :
                  Answers(supervisor_messages, last.tool_calls[i].id) = <<>>
            /\ Len(raw_notes) =
                  Len(SelectSeq(supervisor_messages,
                         LAMBDA m : m.type = "tool" /\ m.name = "ConductResearch"))
            /\ notes = ToolContents(supervisor_messages)

\* a round computed a reflection and ran a worker, the worker failed: the
\* run ended with the trace of the decision turn, without notes
C36_Witness ==
    /\ node = END
    /\ ~ExitCriterion
    /\ Requests("think_tool") # <<>>
    /\ tool_messages # <<>>
    /\ Len(workers) = 1
    /\ workers[1].pc = "failed"
    /\ Len(supervisor_messages) = 2
    /\ raw_notes = <<>>
    /\ notes = <<>>

\* the decision turns of the trace with a request that has a tool message
AnsweredTurns ==
    { k \in DOMAIN supervisor_messages :
        /\ supervisor_messages[k].type = "ai"
        /\ \E i \in DOMAIN supervisor_messages[k].tool_calls :
              Answers(supervisor_messages,
                      supervisor_messages[k].tool_calls[i].id) # <<>> }

\* the rounds that executed an action: those whose results are in the trace,
\* the one whose workers are running, and the one that failed
ExecutedRounds ==
    Cardinality(AnsweredTurns)
      + (IF node = "gather" \/ (node = END /\ ~ExitCriterion) THEN 1 ELSE 0)

\* C37: in a run started with research_iterations = 0 at most
\* max_researcher_iterations - 1 rounds execute an action, and once the
\* counter has reached max_researcher_iterations the requests of the latest
\* decision turn have no tool message and no round is under way.
C37_AtMostFiveRounds ==
    input_iterations = 0 =>
        /\ ExecutedRounds <= max_researcher_iterations - 1
        /\ research_iterations >= max_researcher_iterations
             /\ node \in {"supervisor_tools", END} =>
                \A i \in DOMAIN LastOf(supervisor_messages).tool_calls :
                    Answers(supervisor_messages,
                            LastOf(supervisor_messages).tool_calls[i].id) = <<>>
        /\ research_iterations >= max_researcher_iterations =>
                node \in {"supervisor_tools", END}

\* five rounds were executed, the sixth turn asked for a reflection and the
\* run ended without it
C37_Witness ==
    /\ input_iterations = 0
    /\ node = END
    /\ research_iterations = max_researcher_iterations
    /\ ExecutedRounds = max_researcher_iterations - 1
    /\ Requests("think_tool") # <<>>
    /\ Answers(supervisor_messages, Requests("think_tool")[1].id) = <<>>

\* the place of the latest decision turn before place p of the trace
TurnBefore(p) ==
    CHOOSE k \in 1..(p - 1) :
        /\ supervisor_messages[k].type = "ai"
        /\ \A j \in (k + 1)..(p - 1) : supervisor_messages[j].type # "ai"

ResearchAnswers ==
    SelectSeq(SubSeq(supervisor_messages,
                     TurnBefore(Len(supervisor_messages) + 1) + 1,
                     Len(supervisor_messages)),
              LAMBDA m : m.name = "ConductResearch")

\* C39: when a round of n workers has been joined, the trace has n research
\* tool messages after the decision turn, the i-th with the id of the i-th
\* request and with the compressed findings of the i-th result or, if the
\* result has none, 'Error synthesizing research report'; and the last n
\* entries of raw_notes are, in order, the joined raw notes of the results,
\* the empty string for a result without raw notes.
C39_MissingKeysFillSlots ==
    /\ node = "supervisor"
    /\ Len(supervisor_messages) > 1
    /\ Requests2(supervisor_messages[TurnBefore(Len(supervisor_messages) + 1)],
                 "ConductResearch") # <<>>
    => LET calls ==
              Requests2(supervisor_messages[TurnBefore(Len(supervisor_messages) + 1)],
                        "ConductResearch")
           n == Len(calls)
       IN  /\ Len(workers) = n
           /\ Len(ResearchAnswers) = n
           /\ Len(raw_notes) >= n
           /\ \A i \in 1..n :
                 /\ ResearchAnswers[i].tool_call_id = calls[i].id
                 /\ ResearchAnswers[i].content =
                       IF "compressed_research" \in DOMAIN workers[i].result
                       THEN workers[i].result.compressed_research
                       ELSE <<"Error synthesizing research report">>
                 /\ raw_notes[Len(raw_notes) - n + i] =
                       IF "raw_notes" \in DOMAIN workers[i].result
                       THEN Join(NL, workers[i].result.raw_notes)
                       ELSE <<>>

\* of two workers the first returned no compressed findings and the second
\* no raw notes: two messages and two entries of raw_notes all the same
C39_Witness ==
    /\ node = "supervisor"
    /\ Len(workers) = 2
    /\ DOMAIN workers[1].result = {"raw_notes"}
    /\ DOMAIN workers[2].result = {"compressed_research"}
    /\ Len(supervisor_messages) = 4
    /\ supervisor_messages[3].content = <<"Error synthesizing research report">>
    /\ supervisor_messages[4].content = workers[2].result.compressed_research
    /\ Len(raw_notes) = 2
    /\ raw_notes[1] # <<>>
    /\ raw_notes[2] = <<>>
====
